---- MODULE Spec2Model ----
(***************************************************************************)
(* pelicanconf.py: the settings module of blog.baturin.org.                *)
(*                                                                         *)
(* The file is a Python module made of one import and eighteen top-level   *)
(* assignments of literals.  Loading it executes the statements one by one *)
(* in a module namespace; the namespace is the configuration record.       *)
(* Python strings are modelled as sequences of one-character strings so    *)
(* that emptiness, prefixes, placeholders and substitution are computed    *)
(* and not assumed.                                                        *)
(***************************************************************************)
EXTENDS Integers, Sequences, FiniteSets

(***************************************************************************)
(* Python values                                                           *)
(***************************************************************************)
Str(s) == [t |-> "str", s |-> s]
PyInt(n) == [t |-> "int", n |-> n]
PyBool(b) == [t |-> "bool", b |-> b]
Tuple(items) == [t |-> "tuple", items |-> items]
List(items) == [t |-> "list", items |-> items]
None == [t |-> "none"]
Feature == [t |-> "feature"]
PyError == [t |-> "error"]

(***************************************************************************)
(* Bounds of the model                                                     *)
(***************************************************************************)
MaxSlugLen == 1
MaxFeeds == 2

(***************************************************************************)
(* The literals of pelicanconf.py                                          *)
(***************************************************************************)
AUTHOR_Blank == Str(<<>>)
AUTHOR ==
    Str(<<"D", "a", "n", "i", "i", "l", " ", "B", "a", "t", "u", "r", "i", "n">>)

SITENAME ==
    Str(<<"d", "m", "b", "a", "t", "u", "r", "i", "n", "'", "s", " ", "b", "l", "o", "g">>)

SITEURL_TrailingSlash ==
    Str(<<"h", "t", "t", "p", "s", ":", "/", "/", "b", "l", "o", "g", ".", "b", "a", "t", "u", "r", "i", "n", ".", "o", "r", "g", "/">>)
SITEURL ==
    Str(<<"h", "t", "t", "p", "s", ":", "/", "/", "b", "l", "o", "g", ".", "b", "a", "t", "u", "r", "i", "n", ".", "o", "r", "g">>)

PATH == Str(<<"c", "o", "n", "t", "e", "n", "t">>)

TIMEZONE == Str(<<"E", "t", "c", "/", "U", "T", "C">>)

DEFAULT_LANG == Str(<<"e", "n">>)

FEED_ALL_ATOM ==
    Str(<<"f", "e", "e", "d", "s", "/", "a", "t", "o", "m", ".", "x", "m", "l">>)

CATEGORY_FEED_ATOM_NoPlaceholder ==
    Str(<<"f", "e", "e", "d", "s", "/", "c", "a", "t", ".", "a", "t", "o", "m", ".", "x", "m", "l">>)
CATEGORY_FEED_ATOM_TwoPlaceholders ==
    Str(<<"f", "e", "e", "d", "s", "/", "%", "s", "/", "%", "s", ".", "a", "t", "o", "m", ".", "x", "m", "l">>)
CATEGORY_FEED_ATOM ==
    Str(<<"f", "e", "e", "d", "s", "/", "%", "s", ".", "a", "t", "o", "m", ".", "x", "m", "l">>)

TRANSLATION_FEED_ATOM == None

AUTHOR_FEED_ATOM_Enabled ==
    Str(<<"/", "f", "e", "e", "d", "s", "/", "%", "s", ".", "a", "t", "o", "m", ".", "x", "m", "l">>)
AUTHOR_FEED_ATOM == None

AUTHOR_FEED_RSS == None

LINKS_Swapped ==
    Tuple(<<
        Tuple(<<Str(<<"V", "y", "O", "S", " ", "p", "r", "o", "j", "e", "c", "t">>),
                Str(<<"h", "t", "t", "p", "s", ":", "/", "/", "w", "w", "w", ".", "v", "y", "o", "s", ".", "i", "o", "/">>)>>),
        Tuple(<<Str(<<"d", "m", "b", "a", "t", "u", "r", "i", "n", "'", "s", " ", "w", "e", "b", "s", "i", "t", "e">>),
                Str(<<"h", "t", "t", "p", ":", "/", "/", "b", "a", "t", "u", "r", "i", "n", ".", "o", "r", "g", "/">>)>>)
    >>)
LINKS ==
    Tuple(<<
        Tuple(<<Str(<<"d", "m", "b", "a", "t", "u", "r", "i", "n", "'", "s", " ", "w", "e", "b", "s", "i", "t", "e">>),
                Str(<<"h", "t", "t", "p", ":", "/", "/", "b", "a", "t", "u", "r", "i", "n", ".", "o", "r", "g", "/">>)>>),
        Tuple(<<Str(<<"V", "y", "O", "S", " ", "p", "r", "o", "j", "e", "c", "t">>),
                Str(<<"h", "t", "t", "p", "s", ":", "/", "/", "w", "w", "w", ".", "v", "y", "o", "s", ".", "i", "o", "/">>)>>)
    >>)

\* The sign of the page size slipped.
DEFAULT_PAGINATION_Negative == 0 - 10
DEFAULT_PAGINATION == 10

RELATIVE_URLS == PyBool(TRUE)

STATIC_PATHS == List(<<Str(<<"i", "m", "a", "g", "e", "s">>)>>)

PIWIK_URL ==
    Str(<<"m", "a", "t", "o", "m", "o", ".", "b", "a", "t", "u", "r", "i", "n", ".", "o", "r", "g">>)

PIWIK_SITE_ID ==
    Str(<<"b", "l", "o", "g", ".", "b", "a", "t", "u", "r", "i", "n", ".", "o", "r", "g">>)

DISQUS_SITENAME ==
    Str(<<"b", "l", "o", "g", "-", "b", "a", "t", "u", "r", "i", "n", "-", "o", "r", "g">>)

(***************************************************************************)
(* The statements of the file, in file order.  Each binds one name.        *)
(***************************************************************************)
Stmt(line, name, val) == [line |-> line, name |-> name, val |-> val]

Statements ==
    << Stmt(3, "unicode_literals", Feature),
       Stmt(5, "AUTHOR", AUTHOR),
       Stmt(6, "SITENAME", SITENAME),
       Stmt(7, "SITEURL", SITEURL),
       Stmt(9, "PATH", PATH),
       Stmt(11, "TIMEZONE", TIMEZONE),
       Stmt(13, "DEFAULT_LANG", DEFAULT_LANG),
       Stmt(16, "FEED_ALL_ATOM", FEED_ALL_ATOM),
       Stmt(17, "CATEGORY_FEED_ATOM", CATEGORY_FEED_ATOM),
       Stmt(18, "TRANSLATION_FEED_ATOM", TRANSLATION_FEED_ATOM),
       Stmt(19, "AUTHOR_FEED_ATOM", AUTHOR_FEED_ATOM),
       Stmt(20, "AUTHOR_FEED_RSS", AUTHOR_FEED_RSS),
       Stmt(23, "LINKS", LINKS),
       Stmt(30, "DEFAULT_PAGINATION", PyInt(DEFAULT_PAGINATION)),
       Stmt(33, "RELATIVE_URLS", RELATIVE_URLS),
       Stmt(35, "STATIC_PATHS", STATIC_PATHS),
       Stmt(37, "PIWIK_URL", PIWIK_URL),
       Stmt(38, "PIWIK_SITE_ID", PIWIK_SITE_ID),
       Stmt(40, "DISQUS_SITENAME", DISQUS_SITENAME) >>

\* The file with the site URL first given a development value and then
\* overridden further down.
ProgramRebindingSiteUrl ==
    <<Stmt(4, "SITEURL", Str(<<>>))>> \o Statements
\* The module body the interpreter executes.
Program == Statements

NStmts == Len(Program)
Names == {Program[i].name : i \in 1..NStmts}
FileOrder == [i \in 1..NStmts |-> i]

(***************************************************************************)
(* Execution of one statement in a namespace                               *)
(***************************************************************************)
EmptyNs == [n \in {} |-> None]

Bind(ns, name, val) ==
    [n \in (DOMAIN ns) \cup {name} |-> IF n = name THEN val ELSE ns[n]]

\* An augmented assignment (+=) in place of a plain one: a list that is
\* already bound is extended, not replaced.
EvalAugmented(ns, stmt) ==
    IF stmt.name \in DOMAIN ns /\ stmt.val.t = "list" /\ ns[stmt.name].t = "list"
    THEN List(ns[stmt.name].items \o stmt.val.items)
    ELSE stmt.val
\* The right-hand side of every assignment is a literal: its value does not
\* depend on the namespace.
Eval(ns, stmt) == stmt.val

Exec(ns, stmt) == Bind(ns, stmt.name, Eval(ns, stmt))

\* The whole module body executed in file order, from statement i on.
RECURSIVE ExecFrom(_, _)
ExecFrom(ns, i) ==
    IF i > NStmts THEN ns ELSE ExecFrom(Exec(ns, Program[i]), i + 1)

(***************************************************************************)
(* Python's  template % arg  for a single string argument.  "%s" takes the *)
(* argument, "%%" is a literal percent sign.  A second "%s" has no         *)
(* argument left and an unused argument is not accepted: both raise        *)
(* TypeError.  Any other conversion is outside the templates of this file  *)
(* and is an error as well.                                                *)
(***************************************************************************)
RECURSIVE Fmt(_, _, _, _, _)
Fmt(tpl, arg, i, used, acc) ==
    IF i > Len(tpl) THEN (IF used THEN Str(acc) ELSE PyError)
    ELSE IF tpl[i] # "%" THEN Fmt(tpl, arg, i + 1, used, Append(acc, tpl[i]))
    ELSE IF i = Len(tpl) THEN PyError
    ELSE IF tpl[i + 1] = "%" THEN Fmt(tpl, arg, i + 2, used, Append(acc, "%"))
    ELSE IF tpl[i + 1] = "s"
         THEN (IF used THEN PyError ELSE Fmt(tpl, arg, i + 2, TRUE, acc \o arg))
    ELSE PyError

PyFormat(tpl, arg) == Fmt(tpl, arg, 1, FALSE, <<>>)

(***************************************************************************)
(* Feed settings and the paths and URLs made from them                     *)
(***************************************************************************)
FeedKinds ==
    {"FEED_ALL_ATOM", "CATEGORY_FEED_ATOM", "TRANSLATION_FEED_ATOM",
     "AUTHOR_FEED_ATOM", "AUTHOR_FEED_RSS"}

\* Category slugs: word characters and hyphens, never "/" or "%".
SlugChars == {"a", "-"}
Slugs == UNION {[1..n -> SlugChars] : n \in 0..MaxSlugLen}

\* The all-content feed path is used as written; the other kinds are
\* templates that take a slug.
FeedPath(rec, kind, slug) ==
    IF kind = "FEED_ALL_ATOM" THEN rec[kind] ELSE PyFormat(rec[kind].s, slug)

FeedUrl(rec, path) == rec["SITEURL"].s \o <<"/">> \o path

VARIABLES
    pc,           \* 0: no record; 1..NStmts: next statement; NStmts+1: loaded
    order,        \* the order in which the statements are executed
    ns,           \* the module namespace: the configuration record
    bound,        \* names bound so far by the load in progress, in order
    loads,        \* loads completed in this run, counted up to two
    firstRecord,  \* the record produced by the first completed load
    obs,          \* the last field read: name and value returned
    outputs       \* the feed artifacts written in this run

vars == <<pc, order, ns, bound, loads, firstRecord, obs, outputs>>

Loaded == pc = NStmts + 1
Loading == pc \in 1..NStmts
NoObs == [name |-> "", val |-> None]

Init ==
    /\ pc = 0
    /\ order = FileOrder
    /\ ns = EmptyNs
    /\ bound = <<>>
    /\ loads = 0
    /\ firstRecord = EmptyNs
    /\ obs = NoObs
    /\ outputs = {}

\* A generation run starts by importing the settings module.
StartRun ==
    /\ pc = 0
    /\ pc' = 1
    /\ order' = FileOrder
    /\ ns' = EmptyNs
    /\ bound' = <<>>
    /\ UNCHANGED <<loads, firstRecord, obs, outputs>>

\* The interpreter executes the next statement of the module body.
ExecStatement ==
    /\ Loading
    /\ LET stmt == Program[order[pc]] IN
         /\ ns' = Exec(ns, stmt)
         /\ bound' = Append(bound, stmt.name)
         /\ pc' = pc + 1
         /\ loads' = IF pc = NStmts /\ loads < 2 THEN loads + 1 ELSE loads
         /\ firstRecord' = IF pc = NStmts /\ firstRecord = EmptyNs
                           THEN Exec(ns, stmt) ELSE firstRecord
    /\ UNCHANGED <<order, obs, outputs>>

\* The run ends and the record is discarded.
EndRun ==
    /\ Loaded
    /\ pc' = 0
    /\ ns' = EmptyNs
    /\ bound' = <<>>
    /\ obs' = NoObs
    /\ outputs' = {}
    /\ loads' = 0
    /\ UNCHANGED <<order, firstRecord>>

\* The settings module is executed again in the namespace it already has.
Reload ==
    /\ Loaded
    /\ pc' = 1
    /\ order' = FileOrder
    /\ bound' = <<>>
    /\ UNCHANGED <<ns, loads, firstRecord, obs, outputs>>

\* The renderer reads one field of the record.
ReadField(name) ==
    /\ Loaded
    /\ name \in DOMAIN ns
    /\ obs' = [name |-> name, val |-> ns[name]]
    /\ UNCHANGED <<pc, order, ns, bound, loads, firstRecord, outputs>>

\* The renderer writes one feed.  A feed kind set to None is skipped.
WriteFeed(kind, slug) ==
    /\ Loaded
    /\ Cardinality(outputs) < MaxFeeds
    /\ kind \in DOMAIN ns
    /\ ns[kind].t = "str"
    /\ kind = "FEED_ALL_ATOM" => slug = <<>>
    /\ LET path == FeedPath(ns, kind, slug) IN
         /\ path.t = "str"
         /\ outputs' = outputs \cup
                {[kind |-> kind, slug |-> slug, path |-> path.s,
                  url |-> FeedUrl(ns, path.s)]}
    /\ UNCHANGED <<pc, order, ns, bound, loads, firstRecord, obs>>

Next ==
    \/ StartRun
    \/ ExecStatement
    \/ Reload
    \/ \E name \in Names : ReadField(name)
    \/ \E kind \in FeedKinds, slug \in Slugs : WriteFeed(kind, slug)
    \/ EndRun

Spec == Init /\ [][Next]_vars

(***************************************************************************)
(* The same file with its statements executed in another order: rotations  *)
(* of the file order, their reversals, and swaps of two neighbours.        *)
(***************************************************************************)
Rot(k) == [i \in 1..NStmts |-> ((i - 1 + k) % NStmts) + 1]
Rev(k) == [i \in 1..NStmts |-> NStmts + 1 - Rot(k)[i]]
Swap(j) == [i \in 1..NStmts |-> IF i = j THEN j + 1 ELSE IF i = j + 1 THEN j ELSE i]
Orders ==
    {Rot(k) : k \in 0..(NStmts - 1)} \cup {Rev(k) : k \in 0..(NStmts - 1)}
        \cup {Swap(j) : j \in 1..(NStmts - 1)}

StartRunAnyOrder ==
    /\ pc = 0
    /\ pc' = 1
    /\ \E o \in Orders : order' = o
    /\ ns' = EmptyNs
    /\ bound' = <<>>
    /\ UNCHANGED <<loads, firstRecord, obs, outputs>>

NextAnyOrder ==
    \/ StartRunAnyOrder
    \/ ExecStatement
    \/ \E name \in Names : ReadField(name)
    \/ EndRun

SpecAnyOrder == Init /\ [][NextAnyOrder]_vars

(***************************************************************************)
(* String predicates used by the properties                                *)
(***************************************************************************)
HasAt(s, p, i) == i >= 1 /\ i + Len(p) - 1 <= Len(s) /\ SubSeq(s, i, i + Len(p) - 1) = p
Occurrences(s, p) == {i \in 1..Len(s) : HasAt(s, p, i)}
Contains(s, p) == Occurrences(s, p) # {}
StartsWith(s, p) == HasAt(s, p, 1)
Placeholder == <<"%", "s">>
SchemeSep == <<":", "/", "/">>
\* A relative path: not empty, no leading "/", no scheme.
Relative(p) == Len(p) > 0 /\ p[1] # "/" /\ ~Contains(p, SchemeSep)
\* scheme "://" host, the scheme and the host not empty.
ValidUrl(u) ==
    \E i \in 2..Len(u) :
        /\ HasAt(u, SchemeSep, i)
        /\ \A j \in 1..(i - 1) : u[j] \notin {":", "/"}
        /\ i + 3 <= Len(u)
        /\ u[i + 3] # "/"
IsStr(v) == v.t = "str"

(***************************************************************************)
(* C1.  After load, each of AUTHOR, SITENAME, SITEURL, TIMEZONE and        *)
(* DEFAULT_LANG is present in the record and is a non-empty string.        *)
(***************************************************************************)
RequiredStrings == {"AUTHOR", "SITENAME", "SITEURL", "TIMEZONE", "DEFAULT_LANG"}

C1_RequiredFieldsNonEmpty ==
    Loaded => \A n \in RequiredStrings :
                 n \in DOMAIN ns /\ IsStr(ns[n]) /\ Len(ns[n].s) > 0

C1_Witness ==
    Loaded /\ obs.name \in RequiredStrings /\ IsStr(obs.val) /\ Len(obs.val.s) > 0

(***************************************************************************)
(* C2.  Once a load has completed in a run, no step of that run changes    *)
(* any field of the record, a second execution of the file included; the   *)
(* value a read returned stays the value of the field; and when no run is  *)
(* in progress there is no record.                                         *)
(***************************************************************************)
C2_RecordImmutableAfterLoad ==
    /\ [][(loads >= 1 /\ pc' # 0) => ns' = ns]_vars
    /\ [](obs # NoObs => obs.name \in DOMAIN ns /\ obs.val = ns[obs.name])
    /\ [](pc = 0 => ns = EmptyNs)

C2_Witness ==
    Loading /\ loads >= 1 /\ pc > 4 /\ obs.name = "SITEURL"

(***************************************************************************)
(* C3.  Every completed load, in the same run or in a later one, produces  *)
(* the record the first load produced, and executing a statement changes   *)
(* neither what the renderer has read nor what it has written.             *)
(***************************************************************************)
C3_LoadIdempotent ==
    /\ [](Loaded => ns = firstRecord)
    /\ [][Loading => (obs' = obs /\ outputs' = outputs)]_vars

C3_Witness ==
    Loaded /\ loads = 2 /\ obs # NoObs /\ outputs # {}

(***************************************************************************)
(* C4.  As claimed: every enabled feed path setting, FEED_ALL_ATOM         *)
(* included, contains the "%s" placeholder.                                *)
(***************************************************************************)
C4_EveryEnabledFeedHasPlaceholder ==
    Loaded => \A k \in FeedKinds :
                 IsStr(ns[k]) => Contains(ns[k].s, Placeholder)

(***************************************************************************)
(* C4, amended.  Every enabled feed path setting other than the            *)
(* all-content FEED_ALL_ATOM, that is the enabled CATEGORY_FEED_ATOM,      *)
(* contains the "%s" placeholder.                                          *)
(***************************************************************************)
C4_SlugTemplatesHavePlaceholder ==
    Loaded =>
        /\ \A k \in FeedKinds \ {"FEED_ALL_ATOM"} :
              IsStr(ns[k]) => Contains(ns[k].s, Placeholder)
        /\ IsStr(ns["CATEGORY_FEED_ATOM"])

C4_Witness ==
    /\ Loaded
    /\ obs.name = "CATEGORY_FEED_ATOM"
    /\ \E o \in outputs : o.kind = "CATEGORY_FEED_ATOM" /\ Len(o.slug) > 0

(***************************************************************************)
(* C5.  Every feed kind is present and holds either a relative path        *)
(* template or None; the per-author Atom, per-author RSS and translation   *)
(* feeds are None and no artifact is ever written for them; the            *)
(* all-content and per-category feeds have a path.                         *)
(***************************************************************************)
DisabledFeeds == {"TRANSLATION_FEED_ATOM", "AUTHOR_FEED_ATOM", "AUTHOR_FEED_RSS"}
EnabledFeeds == {"FEED_ALL_ATOM", "CATEGORY_FEED_ATOM"}

C5_FeedKindsPathOrNone ==
    /\ Loaded =>
          /\ \A k \in FeedKinds :
                k \in DOMAIN ns /\ (ns[k] = None \/ (IsStr(ns[k]) /\ Relative(ns[k].s)))
          /\ \A k \in DisabledFeeds : ns[k] = None
          /\ \A k \in EnabledFeeds : IsStr(ns[k])
    /\ \A o \in outputs : o.kind \in EnabledFeeds

C5_Witness ==
    /\ Loaded
    /\ \A k \in EnabledFeeds : \E o \in outputs : o.kind = k
    /\ obs.name \in DisabledFeeds /\ obs.val = None

(***************************************************************************)
(* C6.  The blogroll is a sequence of (label, URL) pairs, every label      *)
(* non-empty and every URL of the form scheme "://" host; reading it       *)
(* yields "dmbaturin's website" first and "VyOS project" second.           *)
(***************************************************************************)
IsLink(e) ==
    /\ e.t = "tuple"
    /\ Len(e.items) = 2
    /\ IsStr(e.items[1]) /\ Len(e.items[1].s) > 0
    /\ IsStr(e.items[2]) /\ ValidUrl(e.items[2].s)

C6_BlogrollOrderedValid ==
    /\ Loaded =>
          /\ "LINKS" \in DOMAIN ns
          /\ ns["LINKS"].t = "tuple"
          /\ \A i \in 1..Len(ns["LINKS"].items) : IsLink(ns["LINKS"].items[i])
    /\ obs.name = "LINKS" =>
          /\ Len(obs.val.items) = 2
          /\ obs.val.items[1].items[1].s =
                <<"d", "m", "b", "a", "t", "u", "r", "i", "n", "'", "s", " ", "w", "e", "b", "s", "i", "t", "e">>
          /\ obs.val.items[2].items[1].s =
                <<"V", "y", "O", "S", " ", "p", "r", "o", "j", "e", "c", "t">>

C6_Witness ==
    Loaded /\ obs.name = "LINKS" /\ Len(obs.val.items) = 2

(***************************************************************************)
(* C7.  After load every field of the data model is present with the type  *)
(* of the schema: the page size is the positive integer 10, the            *)
(* relative-URLs flag a boolean, the blogroll a sequence of pairs, every   *)
(* feed kind a path string or None, the static paths a list of strings,    *)
(* and the analytics and comments identifiers strings.                     *)
(***************************************************************************)
StringFields ==
    RequiredStrings \cup {"PATH", "PIWIK_URL", "PIWIK_SITE_ID", "DISQUS_SITENAME"}
SchemaFields ==
    StringFields \cup FeedKinds
        \cup {"LINKS", "DEFAULT_PAGINATION", "RELATIVE_URLS", "STATIC_PATHS"}

C7_FieldsHaveSchemaTypes ==
    Loaded =>
        /\ SchemaFields \subseteq DOMAIN ns
        /\ \A n \in StringFields : IsStr(ns[n])
        /\ ns["DEFAULT_PAGINATION"].t = "int"
        /\ ns["DEFAULT_PAGINATION"].n = 10
        /\ ns["DEFAULT_PAGINATION"].n > 0
        /\ ns["RELATIVE_URLS"].t = "bool"
        /\ ns["RELATIVE_URLS"].b \in BOOLEAN
        /\ ns["LINKS"].t = "tuple"
        /\ \A i \in 1..Len(ns["LINKS"].items) :
              ns["LINKS"].items[i].t = "tuple" /\ Len(ns["LINKS"].items[i].items) = 2
        /\ \A k \in FeedKinds : ns[k].t \in {"str", "none"}
        /\ ns["STATIC_PATHS"].t = "list"
        /\ \A i \in 1..Len(ns["STATIC_PATHS"].items) : IsStr(ns["STATIC_PATHS"].items[i])

C7_Witness ==
    Loaded /\ obs.name = "DEFAULT_PAGINATION" /\ obs.val.t = "int"

(***************************************************************************)
(* C8.  The per-category template contains exactly one "%s"; substituting  *)
(* a slug always yields a path, with no placeholder left; two different    *)
(* slugs yield two different paths; and no such path is the all-content    *)
(* feed path feeds/atom.xml.                                               *)
(***************************************************************************)
CategoryFeeds == {o \in outputs : o.kind = "CATEGORY_FEED_ATOM"}

C8_CategoryPathsDistinct ==
    /\ Loaded =>
          /\ Cardinality(Occurrences(ns["CATEGORY_FEED_ATOM"].s, Placeholder)) = 1
          /\ \A g \in Slugs : IsStr(FeedPath(ns, "CATEGORY_FEED_ATOM", g))
    /\ \A o \in CategoryFeeds :
          /\ ~Contains(o.path, Placeholder)
          /\ o.path # <<"f", "e", "e", "d", "s", "/", "a", "t", "o", "m", ".", "x", "m", "l">>
          /\ \A f \in outputs : f.kind = "FEED_ALL_ATOM" => f.path # o.path
    /\ \A o1, o2 \in CategoryFeeds : o1.slug # o2.slug => o1.path # o2.path

C8_Witness ==
    /\ \E o1, o2 \in CategoryFeeds : o1.slug # o2.slug /\ Len(o1.slug) > 0 /\ Len(o2.slug) > 0

(***************************************************************************)
(* C9.  While the file is loaded no name is bound twice, and in whatever   *)
(* order the statements are executed the record is the one that file       *)
(* order gives.                                                            *)
(***************************************************************************)
C9_BoundOnceAnyOrder ==
    /\ \A i, j \in 1..Len(bound) : i # j => bound[i] # bound[j]
    /\ Loaded => ns = ExecFrom(EmptyNs, 1)

C9_Witness ==
    Loaded /\ order # FileOrder /\ order[1] = NStmts /\ Len(bound) = NStmts

(***************************************************************************)
(* C10.  The site URL has no trailing "/"; every enabled feed path and     *)
(* every static path is relative; and the URL of every feed written, site  *)
(* URL "/" path, starts with the site URL and has no "//" other than the   *)
(* one of the scheme separator.                                            *)
(***************************************************************************)
C10_FeedUrlsWellFormed ==
    /\ Loaded =>
          /\ ns["SITEURL"].s[Len(ns["SITEURL"].s)] # "/"
          /\ \A k \in FeedKinds : IsStr(ns[k]) => Relative(ns[k].s)
          /\ \A i \in 1..Len(ns["STATIC_PATHS"].items) :
                Relative(ns["STATIC_PATHS"].items[i].s)
    /\ \A o \in outputs :
          /\ StartsWith(o.url, ns["SITEURL"].s)
          /\ Len(o.url) > Len(ns["SITEURL"].s)
          /\ \E i \in 1..Len(o.url) :
                HasAt(o.url, SchemeSep, i) /\ Occurrences(o.url, <<"/", "/">>) = {i + 1}

C10_Witness ==
    /\ \E o \in outputs : o.kind = "FEED_ALL_ATOM"
    /\ \E o \in outputs : o.kind = "CATEGORY_FEED_ATOM" /\ o.slug = <<"-">>
====
